---- MODULE Spec2Model ----
(***************************************************************************)
(* A model of retinaface-js (src/src/index.ts): the RetinaFace             *)
(* post-processing pipeline -- anchor generation, per-stride proposal      *)
(* decoding, confidence filtering, sort, greedy non-maximum suppression    *)
(* and coordinate rescaling -- and of Retinaface.detect as an async        *)
(* function whose calls interleave at their await points.                  *)
(*                                                                         *)
(* Numbers.  The code computes in IEEE doubles.  The model computes in     *)
(* integers on inputs for which every intermediate result of the code is   *)
(* an exact integer, and carries the two special values the code can       *)
(* produce on those inputs: NaN (arithmetic on an out-of-range typed-array *)
(* read, 0/0) and -Infinity (a box delta, consumed by Math.exp only).      *)
(*   probabilities  are in hundredths       (75 stands for 0.75)           *)
(*   nmsThreshold   is a fraction <<n, d>>  (<<1, 2>> stands for 0.5)      *)
(*   scale          is a fraction <<n, d>>  (<<1, 2>> stands for 0.5)      *)
(* Array indices are the code's 0-based indices; At(s, k) reads element k. *)
(***************************************************************************)
EXTENDS Integers, Sequences, FiniteSets, TLC

(* ------------------------------ bounds --------------------------------- *)

\* Longest candidate list handed to nmsSortedBboxes in SpecNms.
MaxLen == 4

\* detect calls started in one behaviour of Spec.
MaxCalls == 3

(* ------------------------------ numbers -------------------------------- *)

\* The double NaN: what arithmetic on `undefined` (an out-of-range read of a
\* Float32Array) and 0/0 give.  A value outside the range of every number
\* the model computes.
NaN == 0 - 999999

\* The float -Infinity, a value a box-delta buffer may hold.
NegInf == 0 - 999998

IsNaN(x) == x = NaN

\* a + b, a - b, a * b of doubles (NaN is contagious).
Add(a, b) == IF IsNaN(a) \/ IsNaN(b) THEN NaN ELSE a + b

Sub(a, b) == IF IsNaN(a) \/ IsNaN(b) THEN NaN ELSE a - b

Mul(a, b) == IF IsNaN(a) \/ IsNaN(b) THEN NaN ELSE a * b

\* Math.min / Math.max: NaN if either argument is NaN.
MathMin(a, b) == IF IsNaN(a) \/ IsNaN(b) THEN NaN ELSE IF a < b THEN a ELSE b

MathMax(a, b) == IF IsNaN(a) \/ IsNaN(b) THEN NaN ELSE IF a > b THEN a ELSE b

\* Element k (0-based) of an array.
At(s, k) == s[k + 1]

\* The five landmark points of a candidate whose landmarks play no part.
NoLandmarks == <<<<0, 0>>, <<0, 0>>, <<0, 0>>, <<0, 0>>, <<0, 0>>>>

\* x * 0.5, for the even numbers the model halves (anchor extents and box
\* sizes are multiples of the even anchor sizes).
Half(x) == IF IsNaN(x) THEN NaN ELSE x \div 2

\* Math.exp at the deltas the model's buffers hold: exp(-Infinity) = 0,
\* exp(0) = 1.
Exp(d) == CASE IsNaN(d) -> NaN [] d = NegInf -> 0 [] d = 0 -> 1

\* a >= b of doubles: false when either is NaN.
Gte(a, b) == ~IsNaN(a) /\ ~IsNaN(b) /\ a >= b

\* Mutant: the comparison turned round.
Lte(a, b) == ~IsNaN(a) /\ ~IsNaN(b) /\ a <= b

\* buf[k] of a Float32Array used as a number: an index outside the array
\* reads `undefined`, which is NaN in arithmetic and in comparisons.
ReadF32(buf, k) == IF k >= 0 /\ k < Len(buf) THEN At(buf, k) ELSE NaN

(* ------------------------------ anchors -------------------------------- *)

\* Math.sqrt of a perfect square (ratios is [1] at every call).
Sqrt(x) == CHOOSE r \in 0..x : r * r = x

\* The anchor of ratio ar and one scale, centred on (baseSize/2, baseSize/2).
Anchor(baseSize, ar, scale) ==
  LET cx  == Half(baseSize)
      cy  == Half(baseSize)
      rW  == baseSize \div Sqrt(ar)
      rH  == rW * ar
      rsW == Half(rW * scale)
      rsH == Half(rH * scale)
  IN  <<cx - rsW, cy - rsH, cx + rsW, cy + rsH>>

\* generateAnchors: anchors[i * numScale + j] for ratio i and scale j.
generateAnchors(baseSize, ratios, scales) ==
  LET numScale == Len(scales)
  IN  [k \in 1..(Len(ratios) * numScale) |->
         Anchor(baseSize, At(ratios, (k - 1) \div numScale),
                At(scales, (k - 1) % numScale))]

\* The strides of detect with their anchor scales, in call order.
StrideTable == << <<32, <<32, 16>> >>, <<16, <<8, 4>> >>, <<8, <<2, 1>> >> >>

(* ------------------------- proposal decoder ---------------------------- *)

\* Mutant: the face score read from the background block of anchor q.
BackgroundScoreOffset(q, numAnchors, offset) == q * offset

\* scoreOffset = (q + numAnchors) * offset
ScoreOffset(q, numAnchors, offset) == (q + numAnchors) * offset

\* Mutant of PassesThreshold: prob <= probThreshold.
FailsThreshold(prob, probThreshold) == Lte(prob, probThreshold)

\* prob >= probThreshold
PassesThreshold(prob, probThreshold) == Gte(prob, probThreshold)

\* The candidate decoded for anchor q at grid cell (i, j): the body of the
\* `if (prob >= probThreshold)` block.
DecodeCell(anchor, featStride, bbox, landmark, q, i, j, w, offset, prob) ==
  LET index          == i * w + j
      bboxOffset     == q * 4 * offset
      landmarkOffset == q * 10 * offset
      anchorX == anchor[1] + j * featStride
      anchorY == anchor[2] + i * featStride
      anchorW == anchor[3] - anchor[1]
      anchorH == anchor[4] - anchor[2]
      dx == ReadF32(bbox, bboxOffset + index + offset * 0)
      dy == ReadF32(bbox, bboxOffset + index + offset * 1)
      dw == ReadF32(bbox, bboxOffset + index + offset * 2)
      dh == ReadF32(bbox, bboxOffset + index + offset * 3)
      cx == anchorX + Half(anchorW)
      cy == anchorY + Half(anchorH)
      pbCx == Add(cx, Mul(anchorW, dx))
      pbCy == Add(cy, Mul(anchorH, dy))
      pbW == Mul(anchorW, Exp(dw))
      pbH == Mul(anchorH, Exp(dh))
      lm(k) == ReadF32(landmark, landmarkOffset + index + offset * k)
  IN  [rect |-> <<Sub(pbCx, Half(pbW)), Sub(pbCy, Half(pbH)),
                  Add(pbCx, Half(pbW)), Add(pbCy, Half(pbH))>>,
       landmarks |->
         << <<Add(cx, Mul(anchorW + 1, lm(0))), Add(cy, Mul(anchorH + 1, lm(1)))>>,
            <<Add(cx, Mul(anchorW + 1, lm(2))), Add(cy, Mul(anchorH + 1, lm(3)))>>,
            <<Add(cx, Mul(anchorW + 1, lm(4))), Add(cy, Mul(anchorH + 1, lm(5)))>>,
            <<Add(cx, Mul(anchorW + 1, lm(6))), Add(cy, Mul(anchorH + 1, lm(7)))>>,
            <<Add(cx, Mul(anchorW + 1, lm(8))), Add(cy, Mul(anchorH + 1, lm(9)))>> >>,
       prob |-> prob]

RECURSIVE ProposalLoop(_, _, _, _, _, _, _, _, _, _)
\* The three nested loops (q, then i, then j) from cell number c on, a cell
\* number being q * h * w + i * w + j; faces are the candidates pushed so far.
ProposalLoop(anchors, featStride, score, bbox, landmark, probThreshold, w, h, c, faces) ==
  LET numAnchors == Len(anchors)
      offset     == w * h
  IN  IF c >= numAnchors * offset THEN faces
      ELSE LET q == c \div offset
               i == (c % offset) \div w
               j == c % w
               prob == ReadF32(score, ScoreOffset(q, numAnchors, offset) + i * w + j)
           IN  ProposalLoop(anchors, featStride, score, bbox, landmark, probThreshold,
                            w, h, c + 1,
                            IF PassesThreshold(prob, probThreshold)
                            THEN Append(faces, DecodeCell(At(anchors, q), featStride, bbox,
                                                          landmark, q, i, j, w, offset, prob))
                            ELSE faces)

\* generateProposals: w and h are the box tensor's dims[3] and dims[2].
generateProposals(anchors, featStride, scoreT, bboxT, landmarkT, probThreshold) ==
  ProposalLoop(anchors, featStride, scoreT.data, bboxT.data, landmarkT.data,
               probThreshold, At(bboxT.dims, 3), At(bboxT.dims, 2), 0, <<>>)

\* processStride's anchors: baseSize 16, ratios [1].
StrideAnchors(scales) == generateAnchors(16, <<1>>, scales)

(* --------------------- outputs of the inference engine ----------------- *)

\* The tensors below have shape [1, channels, h, w]; their data holds the
\* value of channel ch at grid cell number `cell` at index ch * w * h + cell
\* and is cut or padded by `slack` elements (slack = 0: the length the shape
\* says).

\* The score tensor of a stride with two anchors: channels 0, 1 hold the
\* background probabilities and channels 2, 3 the face probabilities
\* faceProbs[anchor * w * h + cell]; the two sum to 1 (a softmax).
ScoreTensor(w, h, slack, faceProbs) ==
  [dims |-> <<1, 4, h, w>>,
   data |-> [k \in 1..(4 * w * h + slack) |->
               LET ch   == (k - 1) \div (w * h)
                   cell == (k - 1) % (w * h)
               IN  IF ch >= 4 THEN 0
                   ELSE IF ch >= 2 THEN faceProbs[(ch - 2) * w * h + cell + 1]
                   ELSE 100 - faceProbs[ch * w * h + cell + 1]]]

\* The box tensor: per anchor the channels dx, dy, dw, dh.
BboxTensor(w, h, slack, dx, dw) ==
  [dims |-> <<1, 8, h, w>>,
   data |-> [k \in 1..(8 * w * h + slack) |->
               LET ch == (k - 1) \div (w * h)
               IN  CASE ch % 4 = 0 -> dx [] ch % 4 = 2 -> dw [] OTHER -> 0]]

\* The landmark tensor: per anchor ten channels, x and y of five points.
LandmarkTensor(w, h, slack, lx) ==
  [dims |-> <<1, 20, h, w>>,
   data |-> [k \in 1..(20 * w * h + slack) |->
               IF ((k - 1) \div (w * h)) % 2 = 0 THEN lx ELSE 0]]

\* Whether the three buffers have the lengths the box tensor's grid implies.
ShapeOk(scoreT, bboxT, landmarkT, numAnchors) ==
  LET offset == At(bboxT.dims, 3) * At(bboxT.dims, 2)
  IN  /\ Len(scoreT.data) = numAnchors * 2 * offset
      /\ Len(bboxT.data) = numAnchors * 4 * offset
      /\ Len(landmarkT.data) = numAnchors * 10 * offset

(* ------------------------- suppression (NMS) --------------------------- *)

\* (obj.rect[2] - obj.rect[0]) * (obj.rect[3] - obj.rect[1]), not clamped.
RectArea(rect) == Mul(Sub(rect[3], rect[1]), Sub(rect[4], rect[2]))

\* faceObjects.map(obj => area of obj.rect)
Areas(faceObjects) == [k \in 1..Len(faceObjects) |-> RectArea(faceObjects[k].rect)]

\* The intersection area of two rects, its width and height clamped to >= 0.
InterArea(ra, rb) ==
  Mul(MathMax(0, Sub(MathMin(ra[3], rb[3]), MathMax(ra[1], rb[1]))),
      MathMax(0, Sub(MathMin(ra[4], rb[4]), MathMax(ra[2], rb[2]))))

\* areas[i] + areas[j] - interArea
UnionArea(areaI, areaJ, interArea) == Sub(Add(areaI, areaJ), interArea)

\* Mutant: the comparison written >= instead of >.
IoUExceedsOrEquals(interArea, unionArea, nmsThreshold) ==
  IF IsNaN(interArea) \/ IsNaN(unionArea) THEN FALSE
  ELSE IF unionArea = 0 THEN interArea > 0
  ELSE IF unionArea > 0
       THEN interArea * nmsThreshold[2] >= nmsThreshold[1] * unionArea
       ELSE interArea * nmsThreshold[2] <= nmsThreshold[1] * unionArea

\* interArea / unionArea > nmsThreshold, as doubles decide it: a NaN operand
\* or 0/0 compares false, x/0 is +Infinity for x > 0, and dividing by a
\* negative union turns the inequality round.
IoUExceeds(interArea, unionArea, nmsThreshold) ==
  IF IsNaN(interArea) \/ IsNaN(unionArea) THEN FALSE
  ELSE IF unionArea = 0 THEN interArea > 0
  ELSE IF unionArea > 0
       THEN interArea * nmsThreshold[2] > nmsThreshold[1] * unionArea
       ELSE interArea * nmsThreshold[2] < nmsThreshold[1] * unionArea

\* Mutant: `for (const j in picked)`, which iterates the array's keys
\* 0 .. picked.length-1 instead of its values.
PickedKeys(picked) == [k \in 1..Len(picked) |-> k - 1]

\* `for (const j of picked)`: the values of picked, in order.
PickedIter(picked) == picked

\* Whether candidate i suppresses nothing it is compared with: one pass of
\* the inner loop's body for the picked index j.
Overlaps(faceObjects, areas, i, j, nmsThreshold) ==
  LET interArea == InterArea(At(faceObjects, i).rect, At(faceObjects, j).rect)
      unionArea == UnionArea(At(areas, i), At(areas, j), interArea)
  IN  IoUExceeds(interArea, unionArea, nmsThreshold)

\* Mutant: keep is assigned by every pass (keep = overlaps ? 0 : 1), so the
\* last picked candidate alone decides.
KeepLastWins(faceObjects, areas, i, picked, nmsThreshold) ==
  LET js == PickedIter(picked)
  IN  Len(js) = 0 \/ ~Overlaps(faceObjects, areas, i, js[Len(js)], nmsThreshold)

\* keep after the inner loop: 1 unless some pass set it to 0.
Keep(faceObjects, areas, i, picked, nmsThreshold) ==
  LET js == PickedIter(picked)
  IN  \A k \in 1..Len(js) : ~Overlaps(faceObjects, areas, i, js[k], nmsThreshold)

RECURSIVE NmsLoop(_, _, _, _, _)
\* The outer loop from index i on, picked being the indices picked so far.
NmsLoop(faceObjects, areas, nmsThreshold, i, picked) ==
  IF i >= Len(faceObjects) THEN picked
  ELSE NmsLoop(faceObjects, areas, nmsThreshold, i + 1,
               IF Keep(faceObjects, areas, i, picked, nmsThreshold)
               THEN Append(picked, i) ELSE picked)

\* nmsSortedBboxes(faceObjects, nmsThreshold): the picked indices.
nmsSortedBboxes(faceObjects, nmsThreshold) ==
  NmsLoop(faceObjects, Areas(faceObjects), nmsThreshold, 0, <<>>)

\* The candidates at the picked indices, in picked order.
PickedObjects(faceObjects, picked) ==
  [k \in 1..Len(picked) |-> At(faceObjects, picked[k])]

(* ------------------------ sort and rescale ----------------------------- *)

\* Mutant: the comparator written (a, b) => a.prob - b.prob.
CompareAscending(a, b) == Sub(a.prob, b.prob)

\* The comparator of faceProposals.sort: (a, b) => b.prob - a.prob.
CompareProb(a, b) == Sub(b.prob, a.prob)

RECURSIVE InsertSorted(_, _, _)
\* x inserted into the sorted list after every element that does not have
\* to come after it (comparator <= 0 or NaN), from position k on.
InsertSorted(sorted, x, k) ==
  IF k > Len(sorted) THEN Append(sorted, x)
  ELSE IF ~IsNaN(CompareProb(sorted[k], x)) /\ CompareProb(sorted[k], x) > 0
       THEN SubSeq(sorted, 1, k - 1) \o <<x>> \o SubSeq(sorted, k, Len(sorted))
       ELSE InsertSorted(sorted, x, k + 1)

RECURSIVE SortFrom(_, _, _)
SortFrom(list, k, sorted) ==
  IF k > Len(list) THEN sorted
  ELSE SortFrom(list, k + 1, InsertSorted(sorted, list[k], 1))

\* Array.prototype.sort with the comparator above: a stable sort.
SortByProb(list) == SortFrom(list, 1, <<>>)

\* x / scale for scale = <<n, d>>; exact for the scales 1/d the model uses.
DivScale(x, scale) == IF IsNaN(x) THEN NaN ELSE (x * scale[2]) \div scale[1]

\* Mutant: the coordinate clamped to [0, dimension].
RescaleCoordToDimension(c, dimension, scale) ==
  DivScale(MathMax(MathMin(c, dimension), 0), scale)

\* Math.max(Math.min(c, dimension - 1), 0) / scale
RescaleCoord(c, dimension, scale) ==
  DivScale(MathMax(MathMin(c, dimension - 1), 0), scale)

\* The record built for one picked candidate.
RescaleFace(obj, width, height, scale) ==
  [rect |-> <<RescaleCoord(obj.rect[1], width, scale),
              RescaleCoord(obj.rect[2], height, scale),
              RescaleCoord(obj.rect[3], width, scale),
              RescaleCoord(obj.rect[4], height, scale)>>,
   landmarks |-> [p \in 1..5 |-> <<DivScale(obj.landmarks[p][1], scale),
                                   DivScale(obj.landmarks[p][2], scale)>>],
   prob |-> obj.prob]

\* picked.map(i => the rescaled faceProposals[i])
RescalePicked(faceProposals, picked, width, height, scale) ==
  [k \in 1..Len(picked) |->
     RescaleFace(At(faceProposals, picked[k]), width, height, scale)]

(* ------------------------------ detect --------------------------------- *)

\* imageData.width !== this.width && imageData.height !== this.height
MismatchInBoth(imageData, width, height) ==
  imageData[1] # width /\ imageData[2] # height

\* imageData.width !== this.width || imageData.height !== this.height
DimensionMismatch(imageData, width, height) ==
  imageData[1] # width \/ imageData[2] # height

\* The three tensors processStride reads for a stride, by their names
\* '...stride' + stride.
StrideTensors(results, stride) == results[stride]

\* What processStride pushes for one entry of StrideTable.
StrideProposals(results, probThreshold, entry) ==
  LET t == StrideTensors(results, entry[1])
  IN  generateProposals(StrideAnchors(entry[2]), entry[1],
                        t.score, t.bbox, t.landmark, probThreshold)

\* Mutant: one candidate list kept on the instance and shared by its calls.
SharedProposals(call) == 1

\* The candidate list of a call: `const faceProposals = []` is a local of
\* the call.
ProposalsOf(call) == call

\* detect from the sort on: sort, suppress, rescale.
SortSuppressRescale(faceProposals, nmsThreshold, width, height, scale) ==
  LET sorted == SortByProb(faceProposals)
  IN  RescalePicked(sorted, nmsSortedBboxes(sorted, nmsThreshold), width, height, scale)

(* --------------------------- inputs of Spec ---------------------------- *)

\* The tensors of one stride: grid <<w, h>>, the face probabilities and the
\* deltas <<dx, dw, lx>>, every buffer of the length its shape says.
StrideOutput(grid, faceProbs, pattern) ==
  [score    |-> ScoreTensor(grid[1], grid[2], 0, faceProbs),
   bbox     |-> BboxTensor(grid[1], grid[2], 0, pattern[1], pattern[2]),
   landmark |-> LandmarkTensor(grid[1], grid[2], 0, pattern[3])]

\* What session.run may resolve to: a typical output, an output without
\* faces, one whose boxes have no width, one with shifted boxes and ties.
EngineOutputs ==
  << (32 :> StrideOutput(<<1, 1>>, <<30, 30>>, <<0, 0, 0>>) @@
      16 :> StrideOutput(<<1, 1>>, <<75, 60>>, <<0, 0, 0>>) @@
      8  :> StrideOutput(<<2, 1>>, <<90, 30, 75, 90>>, <<0, 0, 0>>)),
     (32 :> StrideOutput(<<1, 1>>, <<30, 30>>, <<0, 0, 0>>) @@
      16 :> StrideOutput(<<1, 1>>, <<30, 30>>, <<0, 0, 0>>) @@
      8  :> StrideOutput(<<1, 1>>, <<30, 30>>, <<0, 0, 0>>)),
     (32 :> StrideOutput(<<1, 1>>, <<30, 30>>, <<0, 0, 0>>) @@
      16 :> StrideOutput(<<1, 1>>, <<60, 90>>, <<0, NegInf, 1>>) @@
      8  :> StrideOutput(<<1, 1>>, <<90, 90>>, <<0, NegInf, 1>>)),
     (32 :> StrideOutput(<<1, 2>>, <<90, 30, 75, 75>>, <<1, 0, 1>>) @@
      16 :> StrideOutput(<<1, 1>>, <<90, 60>>, <<0, 0, 0>>) @@
      8  :> StrideOutput(<<1, 1>>, <<60, 75>>, <<1, 0, 1>>)) >>

\* The sizes of the imageData a call passes; the instance is 64 x 32.
ImageSizes == { <<64, 32>>, <<32, 32>>, <<64, 64>> }

\* <<scale, probThreshold, nmsThreshold>> of a call; the second is detect's
\* defaults but for the scale.
CallOptions ==
  { <<<<1, 1>>, 75, <<1, 2>>>>, <<<<1, 2>>, 75, <<1, 2>>>>,
    <<<<1, 1>>, 50, <<1, 5>>>>, <<<<1, 2>>, 50, <<1, 5>>>> }

\* The detect calls that may be in flight at once.
Slots == { 1, 2 }

(* ------------------------ inputs of SpecNms ---------------------------- *)

\* Rects on a 4 x 3 grid: nested and side-by-side boxes (IoU 0, 1/4, 1/3,
\* 1/2, 1), a point (zero area) and a rect with x1 < x0.
NmsRects ==
  { <<0, 0, 2, 2>>, <<0, 0, 1, 2>>, <<1, 0, 2, 2>>, <<0, 0, 1, 1>>,
    <<1, 0, 3, 2>>, <<1, 1, 1, 1>>, <<2, 0, 0, 2>> }

NmsThresholds == { <<1, 4>>, <<1, 2>> }

\* A list of rects as candidates sorted by prob descending: the first
\* `cut` candidates have prob 90, the others prob 80.
SortedCandidates(rects, cut) ==
  [k \in 1..Len(rects) |->
     [rect |-> rects[k], landmarks |-> NoLandmarks,
      prob |-> IF k <= cut THEN 90 ELSE 80]]

(* ----------------------- inputs of SpecDecode -------------------------- *)

\* Grids <<w, h>> of a stride's feature map.
DecGrids == { <<1, 1>>, <<2, 1>>, <<1, 2>> }

\* Face probabilities, in hundredths.
ScoreValues == { 30, 60, 75 }

\* probThreshold, in hundredths (0.75 is detect's default).
ProbThresholds == { 50, 75 }

\* Box and landmark deltas <<dx, dw, lx>> that fill a stride's tensors.
DeltaPatterns == { <<0, 0, 0>>, <<1, 0, 1>>, <<0, NegInf, 1>> }

\* Elements missing from (-1) or added to (+1) the score, box and landmark
\* buffers: at most one buffer is off.
Slacks ==
  { <<0, 0, 0>>, <<0 - 1, 0, 0>>, <<1, 0, 0>>, <<0, 0 - 1, 0>>, <<0, 1, 0>>,
    <<0, 0, 0 - 1>>, <<0, 0, 1>> }

(* ------------------------------ state ---------------------------------- *)

VARIABLES
  nmsRects,      \* SpecNms: the rects of the sorted candidate list L
  nmsCut,        \* SpecNms: how many candidates of L have the higher prob
  nmsThreshold,  \* SpecNms: the threshold t
  nmsPicked,     \* SpecNms: nmsSortedBboxes(L, t)
  nmsRepicked,   \* SpecNms: nmsSortedBboxes(P, t), P the candidates picked from L
  nmsPhase,      \* SpecNms: "input", "picked", "repicked"
  decStride,     \* SpecDecode: the entry of StrideTable decoded (1..3)
  decGrid,       \* SpecDecode: <<w, h>> of the three tensors
  decFaceProbs,  \* SpecDecode: the face probabilities of the score tensor
  decPattern,    \* SpecDecode: <<dx, dw, lx>> of the box and landmark tensors
  decSlack,      \* SpecDecode: the buffers' excess lengths
  decOutcome,    \* SpecDecode: per threshold "none", "returned" or "threw"
  decFaces,      \* SpecDecode: per threshold the candidates returned
  width,         \* Spec: this.width
  height,        \* Spec: this.height
  started,       \* Spec: detect calls started so far
  pc,            \* Spec: per call, where it stands (see the actions)
  args,          \* Spec: per call, its arguments
  results,       \* Spec: per call, the index in EngineOutputs of what run resolved to (0: nothing yet)
  strideIx,      \* Spec: per call, the entry of StrideTable being processed
  faces,         \* Spec: per call, what generateProposals returned, not yet pushed
  faceProposals, \* Spec: per candidate list, the candidates pushed (sorted, once detect sorted it)
  picked,        \* Spec: per call, the indices nmsSortedBboxes picked
  ret,           \* Spec: per call, the list detect resolved to
  ranSession,    \* Spec: per call, whether it called session.run
  decoded        \* Spec: per call, the strides it decoded

nmsVars == <<nmsRects, nmsCut, nmsThreshold, nmsPicked, nmsRepicked, nmsPhase>>

decVars == <<decStride, decGrid, decFaceProbs, decPattern, decSlack, decOutcome, decFaces>>

detVars ==
  <<width, height, started, pc, args, results, strideIx, faces, faceProposals,
    picked, ret, ranSession, decoded>>

vars == <<nmsVars, decVars, detVars>>

\* SpecNms: the sorted candidate list L.
NmsObjects == SortedCandidates(nmsRects, nmsCut)

\* SpecDecode: the three tensors of the stride.
DecScoreT == ScoreTensor(decGrid[1], decGrid[2], decSlack[1], decFaceProbs)

DecBboxT == BboxTensor(decGrid[1], decGrid[2], decSlack[2], decPattern[1], decPattern[2])

DecLandmarkT == LandmarkTensor(decGrid[1], decGrid[2], decSlack[3], decPattern[3])

\* The state of a part of the model that a specification does not run.
NmsIdle ==
  /\ nmsRects = <<>>
  /\ nmsCut = 0
  /\ nmsThreshold = <<1, 2>>
  /\ nmsPicked = <<>>
  /\ nmsRepicked = <<>>
  /\ nmsPhase = "input"

DecIdle ==
  /\ decStride = 1
  /\ decGrid = <<1, 1>>
  /\ decFaceProbs = <<30, 30>>
  /\ decPattern = <<0, 0, 0>>
  /\ decSlack = <<0, 0, 0>>
  /\ decOutcome = [t \in ProbThresholds |-> "none"]
  /\ decFaces = [t \in ProbThresholds |-> <<>>]

\* The arguments of a call that has not started.
NoArgs == [imageData |-> <<0, 0>>, scale |-> <<1, 1>>, probThreshold |-> 0,
           nmsThreshold |-> <<0, 1>>]

DetIdle ==
  /\ width = 64
  /\ height = 32
  /\ started = 0
  /\ pc = [c \in Slots |-> "idle"]
  /\ args = [c \in Slots |-> NoArgs]
  /\ results = [c \in Slots |-> 0]
  /\ strideIx = [c \in Slots |-> 0]
  /\ faces = [c \in Slots |-> <<>>]
  /\ faceProposals = [c \in Slots |-> <<>>]
  /\ picked = [c \in Slots |-> <<>>]
  /\ ret = [c \in Slots |-> <<>>]
  /\ ranSession = [c \in Slots |-> FALSE]
  /\ decoded = [c \in Slots |-> 0]

(* ------------------------------ SpecNms -------------------------------- *)

NmsInit ==
  /\ \E n \in 0..MaxLen : nmsRects \in [1..n -> NmsRects] /\ nmsCut \in 0..n
  /\ nmsThreshold \in NmsThresholds
  /\ nmsPicked = <<>>
  /\ nmsRepicked = <<>>
  /\ nmsPhase = "input"
  /\ DecIdle
  /\ DetIdle

\* picked = nmsSortedBboxes(faceProposals, nmsThreshold)
NmsRun ==
  /\ nmsPhase = "input"
  /\ nmsPicked' = nmsSortedBboxes(NmsObjects, nmsThreshold)
  /\ nmsPhase' = "picked"
  /\ UNCHANGED <<nmsRects, nmsCut, nmsThreshold, nmsRepicked, decVars, detVars>>

\* Suppression run again on its own output.
NmsRerun ==
  /\ nmsPhase = "picked"
  /\ nmsRepicked' = nmsSortedBboxes(PickedObjects(NmsObjects, nmsPicked), nmsThreshold)
  /\ nmsPhase' = "repicked"
  /\ UNCHANGED <<nmsRects, nmsCut, nmsThreshold, nmsPicked, decVars, detVars>>

NmsNext == NmsRun \/ NmsRerun

SpecNms == NmsInit /\ [][NmsNext]_vars

(* ------------------------------ SpecDecode ----------------------------- *)

DecInit ==
  /\ decStride \in 1..Len(StrideTable)
  /\ decGrid \in DecGrids
  /\ decFaceProbs \in [1..(2 * decGrid[1] * decGrid[2]) -> ScoreValues]
  /\ decPattern \in DeltaPatterns
  /\ decSlack \in Slacks
  /\ decOutcome = [t \in ProbThresholds |-> "none"]
  /\ decFaces = [t \in ProbThresholds |-> <<>>]
  /\ NmsIdle
  /\ DetIdle

\* generateProposals applied to the stride's tensors with threshold t.  The
\* code has no path that throws: it returns whatever the loops pushed.
DecodeAt(t) ==
  /\ decOutcome[t] = "none"
  /\ decFaces' = [decFaces EXCEPT ![t] =
       generateProposals(StrideAnchors(StrideTable[decStride][2]),
                         StrideTable[decStride][1],
                         DecScoreT, DecBboxT, DecLandmarkT, t)]
  /\ decOutcome' = [decOutcome EXCEPT ![t] = "returned"]
  /\ UNCHANGED <<decStride, decGrid, decFaceProbs, decPattern, decSlack, nmsVars, detVars>>

DecNext == \E t \in ProbThresholds : DecodeAt(t)

SpecDecode == DecInit /\ [][DecNext]_vars

(* -------------------------------- Spec --------------------------------- *)
(* One Retinaface instance and the detect calls on it.  JavaScript runs a  *)
(* call from one await to the next without interruption, so an action is   *)
(* the code between two awaits.  pc of a call:                             *)
(*   "idle"      not started (or its result was taken)                     *)
(*   "run"       awaiting session.run                                      *)
(*   "score", "bbox", "landmark"                                           *)
(*               in generateProposals, awaiting that tensor's getData      *)
(*   "push"      in processStride, awaiting generateProposals              *)
(*   "stride"    in detect, awaiting processStride                         *)
(*   "done"      resolved with ret       "threw"  rejected with an error   *)
(***************************************************************************)

Init == DetIdle /\ NmsIdle /\ DecIdle

\* The tensors a call's session.run resolved to.
ResultsOf(c) == EngineOutputs[results[c]]

\* detect is called: the size check, then (the pixel copy into the input
\* tensor, which no later step reads back, and) session.run.
Call(c) ==
  /\ pc[c] = "idle"
  /\ started < MaxCalls
  /\ started' = started + 1
  /\ \E size \in ImageSizes : \E opt \in CallOptions :
       /\ args' = [args EXCEPT ![c] =
            [imageData |-> size, scale |-> opt[1], probThreshold |-> opt[2],
             nmsThreshold |-> opt[3]]]
       /\ IF DimensionMismatch(size, width, height)
          THEN /\ pc' = [pc EXCEPT ![c] = "threw"]
               /\ UNCHANGED ranSession
          ELSE /\ pc' = [pc EXCEPT ![c] = "run"]
               /\ ranSession' = [ranSession EXCEPT ![c] = TRUE]
  /\ UNCHANGED <<width, height, results, strideIx, faces, faceProposals, picked,
                 ret, decoded, nmsVars, decVars>>

\* session.run resolves: faceProposals = [], and processStride for stride
\* 32 runs up to the first getData of generateProposals.
RunResolves(c) ==
  /\ pc[c] = "run"
  /\ \E out \in 1..Len(EngineOutputs) : results' = [results EXCEPT ![c] = out]
  /\ faceProposals' = [faceProposals EXCEPT ![ProposalsOf(c)] = <<>>]
  /\ strideIx' = [strideIx EXCEPT ![c] = 1]
  /\ pc' = [pc EXCEPT ![c] = "score"]
  /\ UNCHANGED <<width, height, started, args, faces, picked, ret, ranSession,
                 decoded, nmsVars, decVars>>

\* session.run rejects: detect has no handler, the call rejects with it.
RunRejects(c) ==
  /\ pc[c] = "run"
  /\ pc' = [pc EXCEPT ![c] = "threw"]
  /\ UNCHANGED <<width, height, started, args, results, strideIx, faces,
                 faceProposals, picked, ret, ranSession, decoded, nmsVars, decVars>>

\* scoreT.getData() resolves; bboxT.getData() is awaited.
GotScore(c) ==
  /\ pc[c] = "score"
  /\ pc' = [pc EXCEPT ![c] = "bbox"]
  /\ UNCHANGED <<width, height, started, args, results, strideIx, faces,
                 faceProposals, picked, ret, ranSession, decoded, nmsVars, decVars>>

\* bboxT.getData() resolves; landmarkT.getData() is awaited.
GotBbox(c) ==
  /\ pc[c] = "bbox"
  /\ pc' = [pc EXCEPT ![c] = "landmark"]
  /\ UNCHANGED <<width, height, started, args, results, strideIx, faces,
                 faceProposals, picked, ret, ranSession, decoded, nmsVars, decVars>>

\* landmarkT.getData() resolves: the loops run and generateProposals
\* returns its faces.
GotLandmark(c) ==
  /\ pc[c] = "landmark"
  /\ faces' = [faces EXCEPT ![c] =
       StrideProposals(ResultsOf(c), args[c].probThreshold, StrideTable[strideIx[c]])]
  /\ decoded' = [decoded EXCEPT ![c] = @ + 1]
  /\ pc' = [pc EXCEPT ![c] = "push"]
  /\ UNCHANGED <<width, height, started, args, results, strideIx, faceProposals,
                 picked, ret, ranSession, nmsVars, decVars>>

\* processStride resumes: faceProposals.push(...faces), and it returns.
Push(c) ==
  /\ pc[c] = "push"
  /\ faceProposals' = [faceProposals EXCEPT ![ProposalsOf(c)] = @ \o faces[c]]
  /\ faces' = [faces EXCEPT ![c] = <<>>]
  /\ pc' = [pc EXCEPT ![c] = "stride"]
  /\ UNCHANGED <<width, height, started, args, results, strideIx, picked, ret,
                 ranSession, decoded, nmsVars, decVars>>

\* detect resumes after a processStride that is not the last: the next
\* processStride runs up to its first getData.
NextStride(c) ==
  /\ pc[c] = "stride"
  /\ strideIx[c] < Len(StrideTable)
  /\ strideIx' = [strideIx EXCEPT ![c] = @ + 1]
  /\ pc' = [pc EXCEPT ![c] = "score"]
  /\ UNCHANGED <<width, height, started, args, results, faces, faceProposals,
                 picked, ret, ranSession, decoded, nmsVars, decVars>>

\* detect resumes after the last processStride: sort (in place), suppress,
\* rescale, return.
Finish(c) ==
  /\ pc[c] = "stride"
  /\ strideIx[c] = Len(StrideTable)
  /\ LET sorted == SortByProb(faceProposals[ProposalsOf(c)])
         pick   == nmsSortedBboxes(sorted, args[c].nmsThreshold)
     IN  /\ faceProposals' = [faceProposals EXCEPT ![ProposalsOf(c)] = sorted]
         /\ picked' = [picked EXCEPT ![c] = pick]
         /\ ret' = [ret EXCEPT ![c] =
              RescalePicked(sorted, pick, width, height, args[c].scale)]
  /\ pc' = [pc EXCEPT ![c] = "done"]
  /\ UNCHANGED <<width, height, started, args, results, strideIx, faces,
                 ranSession, decoded, nmsVars, decVars>>

\* The caller takes the outcome of a settled call; the slot is free again.
Settle(c) ==
  /\ pc[c] \in {"done", "threw"}
  /\ pc' = [pc EXCEPT ![c] = "idle"]
  /\ args' = [args EXCEPT ![c] = NoArgs]
  /\ results' = [results EXCEPT ![c] = 0]
  /\ strideIx' = [strideIx EXCEPT ![c] = 0]
  /\ faces' = [faces EXCEPT ![c] = <<>>]
  /\ faceProposals' = [faceProposals EXCEPT ![ProposalsOf(c)] = <<>>]
  /\ picked' = [picked EXCEPT ![c] = <<>>]
  /\ ret' = [ret EXCEPT ![c] = <<>>]
  /\ ranSession' = [ranSession EXCEPT ![c] = FALSE]
  /\ decoded' = [decoded EXCEPT ![c] = 0]
  /\ UNCHANGED <<width, height, started, nmsVars, decVars>>

Next ==
  \E c \in Slots :
    \/ Call(c)
    \/ RunResolves(c)
    \/ RunRejects(c)
    \/ GotScore(c)
    \/ GotBbox(c)
    \/ GotLandmark(c)
    \/ Push(c)
    \/ NextStride(c)
    \/ Finish(c)
    \/ Settle(c)

Spec == Init /\ [][Next]_vars

(* ------------------------- claims: suppression ------------------------- *)

\* x1 >= x0 and y1 >= y0 (so the area is non-negative).
WellFormed(rect) ==
  /\ ~IsNaN(rect[1]) /\ ~IsNaN(rect[2]) /\ ~IsNaN(rect[3]) /\ ~IsNaN(rect[4])
  /\ rect[3] >= rect[1]
  /\ rect[4] >= rect[2]

\* The IoU of two rects as the pair <<intersection, union>>: intersection
\* width and height clamped to >= 0, union = area + area - intersection.
IoU(ra, rb) ==
  LET inter == InterArea(ra, rb)
  IN  <<inter, RectArea(ra) + RectArea(rb) - inter>>

\* iou <= t for the doubles iou = inter/union and t: false for 0/0 = NaN.
IoULeq(iou, t) ==
  IF iou[2] = 0 THEN FALSE
  ELSE IF iou[2] > 0 THEN iou[1] * t[2] <= t[1] * iou[2]
  ELSE iou[1] * t[2] >= t[1] * iou[2]

\* iou > t for the doubles iou = inter/union and t.
IoUGt(iou, t) ==
  IF iou[2] = 0 THEN iou[1] > 0
  ELSE IF iou[2] > 0 THEN iou[1] * t[2] > t[1] * iou[2]
  ELSE iou[1] * t[2] < t[1] * iou[2]

\* The set of picked indices.
PickedSet == { nmsPicked[k] : k \in 1..Len(nmsPicked) }

AllWellFormed == \A k \in 1..Len(nmsRects) : WellFormed(nmsRects[k])

\* C1 as stated: after nmsSortedBboxes returns, every two distinct picked
\* candidates have IoU <= nmsThreshold, provided every rect is well-formed
\* (x1 >= x0, y1 >= y0, area >= 0).
C1_NoOverlapAsStated ==
  (nmsPhase # "input" /\ AllWellFormed) =>
    \A i \in PickedSet : \A j \in PickedSet \ {i} :
      IoULeq(IoU(At(nmsRects, i), At(nmsRects, j)), nmsThreshold)

\* C1 amended: the same, for every two distinct picked candidates that do
\* not both have zero area (two zero-area rects have IoU 0/0 = NaN, which is
\* neither > nor <= the threshold, and both are kept).
C1_NoOverlap ==
  (nmsPhase # "input" /\ AllWellFormed) =>
    \A i \in PickedSet : \A j \in PickedSet \ {i} :
      (RectArea(At(nmsRects, i)) # 0 \/ RectArea(At(nmsRects, j)) # 0) =>
        IoULeq(IoU(At(nmsRects, i), At(nmsRects, j)), nmsThreshold)

\* Well-formed rects, two picked candidates that intersect, and a candidate
\* that was suppressed.
C1_Witness ==
  /\ nmsPhase = "picked"
  /\ AllWellFormed
  /\ Len(nmsPicked) < Len(nmsRects)
  /\ \E i \in PickedSet : \E j \in PickedSet \ {i} :
       IoU(At(nmsRects, i), At(nmsRects, j))[1] > 0

\* C5: suppression run on its own output P picks every element of P: it
\* returns the indices 0 .. |P|-1.
C5_Idempotent ==
  nmsPhase = "repicked" => nmsRepicked = [k \in 1..Len(nmsPicked) |-> k - 1]

\* The second run has run on an output of several candidates from which the
\* first run suppressed some.
C5_Witness ==
  /\ nmsPhase = "repicked"
  /\ Len(nmsPicked) >= 3
  /\ Len(nmsPicked) < Len(nmsRects)

\* C9: index 0 of a non-empty list is picked, and every index that is not
\* picked has IoU > nmsThreshold with a picked index before it.
C9_GreedyMaximal ==
  nmsPhase # "input" =>
    /\ Len(nmsRects) > 0 => 0 \in PickedSet
    /\ \A i \in 0..(Len(nmsRects) - 1) :
         i \notin PickedSet =>
           \E j \in PickedSet :
             j < i /\ IoUGt(IoU(At(nmsRects, i), At(nmsRects, j)), nmsThreshold)

\* A candidate is picked although it overlaps, above the threshold, an
\* earlier candidate that was itself discarded.
C9_Witness ==
  /\ nmsPhase = "picked"
  /\ \E i \in 0..(Len(nmsRects) - 1) : \E k \in PickedSet :
       /\ i \notin PickedSet
       /\ i < k
       /\ IoUGt(IoU(At(nmsRects, k), At(nmsRects, i)), nmsThreshold)

(* --------------------------- claims: decoder ---------------------------- *)

DecShapeOk == ShapeOk(DecScoreT, DecBboxT, DecLandmarkT, 2)

\* The elements of a sequence, as a set.
Range(seq) == { seq[k] : k \in 1..Len(seq) }

\* C3: when a buffer's length is not numAnchors x channels x w x h, the
\* decoder fails with an error: it returns no candidate list.
C3_FailFast ==
  \A t \in ProbThresholds : decOutcome[t] = "returned" => DecShapeOk

\* C6: for thresholds t1 < t2 and the same anchors and buffers, the
\* candidates decoded at t2 are among those decoded at t1, and are no more.
C6_ThresholdMonotone ==
  \A t1 \in ProbThresholds : \A t2 \in ProbThresholds :
    (t1 < t2 /\ decOutcome[t1] = "returned" /\ decOutcome[t2] = "returned") =>
      /\ Range(decFaces[t2]) \subseteq Range(decFaces[t1])
      /\ Len(decFaces[t2]) <= Len(decFaces[t1])

\* Both thresholds decoded, the higher one keeping some candidates and
\* dropping others.
C6_Witness ==
  /\ DecShapeOk
  /\ decOutcome[50] = "returned"
  /\ decOutcome[75] = "returned"
  /\ Len(decFaces[75]) > 0
  /\ Len(decFaces[75]) < Len(decFaces[50])

(* ---------------------------- claims: detect ---------------------------- *)

\* The probs of a candidate list, in order.
Probs(list) == [k \in 1..Len(list) |-> list[k].prob]

\* Whether a list of numbers never increases from one element to the next.
NonIncreasing(nums) == \A k \in 1..(Len(nums) - 1) : nums[k] >= nums[k + 1]

StrictlyIncreasing(nums) == \A k \in 1..(Len(nums) - 1) : nums[k] < nums[k + 1]

\* Whether the imageData of call c has the instance's size.
SizeMatches(c) == args[c].imageData[1] = width /\ args[c].imageData[2] = height

\* C2: a call whose imageData is not width x height fails with the
\* precondition error at once: it never runs the session, decodes no
\* stride and returns no list.
C2_SizePrecondition ==
  \A c \in Slots :
    (pc[c] # "idle" /\ ~SizeMatches(c)) =>
      /\ pc[c] = "threw"
      /\ ~ranSession[c]
      /\ results[c] = 0
      /\ decoded[c] = 0
      /\ faces[c] = <<>>
      /\ ret[c] = <<>>

\* A call with a wrong height has failed while the other call is decoding.
C2_Witness ==
  \E c \in Slots : \E d \in Slots \ {c} :
    /\ pc[c] = "threw"
    /\ args[c].imageData = <<64, 64>>
    /\ pc[d] = "push"

\* C4: when detect returns, the list it sorted is in descending prob order,
\* the picked indices increase strictly, and the returned candidates are in
\* descending prob order.
C4_DescendingOrder ==
  \A c \in Slots :
    pc[c] = "done" =>
      /\ NonIncreasing(Probs(faceProposals[c]))
      /\ StrictlyIncreasing(picked[c])
      /\ NonIncreasing(Probs(ret[c]))

\* A call returned three or more candidates of different probs after
\* suppressing others.
C4_Witness ==
  \E c \in Slots :
    /\ pc[c] = "done"
    /\ Len(ret[c]) >= 3
    /\ ret[c][1].prob > ret[c][Len(ret[c])].prob
    /\ Len(ret[c]) < Len(faceProposals[c])

\* The face scores of a stride's score tensor in the decoder's order of
\* anchors and cells: the score of anchor q at cell (i, j) is read at
\* (q + numAnchors) * w * h + i * w + j.
FaceScores(tensors, numAnchors) ==
  LET w == At(tensors.bbox.dims, 3)
      h == At(tensors.bbox.dims, 2)
  IN  [n \in 1..(numAnchors * w * h) |->
         LET q == (n - 1) \div (w * h)
             i == ((n - 1) % (w * h)) \div w
             j == (n - 1) % w
         IN  At(tensors.score.data, (q + numAnchors) * w * h + i * w + j)]

\* The scores of a list that are >= the threshold, in order.
AtLeast(scores, threshold) ==
  LET Passes(x) == x >= threshold
  IN  SelectSeq(scores, Passes)

\* C7: the decoder emits a candidate for a cell exactly when the face score
\* at (q + numAnchors) * w * h + i * w + j is >= probThreshold, with that
\* score as its prob; so every candidate pushed, sorted, suppressed or
\* returned has prob >= probThreshold.
C7_FilterAtDecode ==
  \A c \in Slots :
    /\ pc[c] = "push" =>
         Probs(faces[c]) =
           AtLeast(FaceScores(StrideTensors(ResultsOf(c), StrideTable[strideIx[c]][1]), 2),
                   args[c].probThreshold)
    /\ \A k \in 1..Len(faceProposals[c]) :
         faceProposals[c][k].prob >= args[c].probThreshold
    /\ \A k \in 1..Len(ret[c]) : ret[c][k].prob >= args[c].probThreshold

\* A stride was decoded with some cells passing the threshold (one of them
\* with a score equal to it) and some failing it.
C7_Witness ==
  \E c \in Slots :
    /\ pc[c] = "push"
    /\ Len(faces[c]) > 0
    /\ Len(faces[c]) < Len(FaceScores(StrideTensors(ResultsOf(c), StrideTable[strideIx[c]][1]), 2))
    /\ \E k \in 1..Len(faces[c]) : faces[c][k].prob = args[c].probThreshold

\* c clamped to [lo, hi].
Clamp(c, lo, hi) == IF c < lo THEN lo ELSE IF c > hi THEN hi ELSE c

\* Whether x = y / scale for the fraction scale = <<n, d>>.
IsQuotient(x, y, scale) == x * scale[1] = y * scale[2]

\* Whether a rect lies inside [0, width-1] x [0, height-1].
Inside(rect) ==
  /\ rect[1] >= 0 /\ rect[1] <= width - 1
  /\ rect[3] >= 0 /\ rect[3] <= width - 1
  /\ rect[2] >= 0 /\ rect[2] <= height - 1
  /\ rect[4] >= 0 /\ rect[4] <= height - 1

RECURSIVE ProposalsUpTo(_, _)
\* What the strides 32, 16, 8 of call c decode, in that order, up to and
\* including entry n of StrideTable.
ProposalsUpTo(c, n) ==
  IF n = 0 THEN <<>>
  ELSE ProposalsUpTo(c, n - 1)
         \o StrideProposals(ResultsOf(c), args[c].probThreshold, StrideTable[n])

\* C8: every returned candidate is a picked candidate with each rect
\* coordinate clamped to [0, dimension-1] and divided by scale, the
\* landmarks divided by scale unclamped and the prob kept; the picked
\* candidates themselves are left as they were; with scale 1 a rect inside
\* [0, width-1] x [0, height-1] is returned unchanged.
C8_Rescale ==
  \A c \in Slots :
    pc[c] = "done" =>
      /\ Len(ret[c]) = Len(picked[c])
      /\ faceProposals[c] = SortByProb(ProposalsUpTo(c, Len(StrideTable)))
      /\ \A k \in 1..Len(picked[c]) :
           LET obj == At(faceProposals[c], picked[c][k])
               out == ret[c][k]
           IN  /\ IsQuotient(out.rect[1], Clamp(obj.rect[1], 0, width - 1), args[c].scale)
               /\ IsQuotient(out.rect[2], Clamp(obj.rect[2], 0, height - 1), args[c].scale)
               /\ IsQuotient(out.rect[3], Clamp(obj.rect[3], 0, width - 1), args[c].scale)
               /\ IsQuotient(out.rect[4], Clamp(obj.rect[4], 0, height - 1), args[c].scale)
               /\ \A p \in 1..5 : \A xy \in 1..2 :
                    IsQuotient(out.landmarks[p][xy], obj.landmarks[p][xy], args[c].scale)
               /\ out.prob = obj.prob
               /\ (args[c].scale = <<1, 1>> /\ Inside(obj.rect)) => out.rect = obj.rect

\* A call with scale 1 returned a candidate whose rect was inside the image
\* and one whose rect and landmarks were not.
C8_Witness ==
  \E c \in Slots :
    /\ pc[c] = "done"
    /\ args[c].scale = <<1, 1>>
    /\ \E k \in 1..Len(picked[c]) : Inside(At(faceProposals[c], picked[c][k]).rect)
    /\ \E k \in 1..Len(picked[c]) :
         /\ At(faceProposals[c], picked[c][k]).rect[3] > width - 1
         /\ At(faceProposals[c], picked[c][k]).landmarks[1][1] > width - 1

\* A call with scale 1/2 returned a candidate whose rect was clamped.
C8_WitnessScaled ==
  \E c \in Slots :
    /\ pc[c] = "done"
    /\ args[c].scale = <<1, 2>>
    /\ \E k \in 1..Len(picked[c]) : ~Inside(At(faceProposals[c], picked[c][k]).rect)

\* What a call returns when it runs alone: the three strides decoded in the
\* order 32, 16, 8, then sorted, suppressed and rescaled.
DetectAlone(c) ==
  SortSuppressRescale(ProposalsUpTo(c, Len(StrideTable)), args[c].nmsThreshold,
                      width, height, args[c].scale)

\* C10: whatever the interleaving of the calls, the candidate list of a
\* call holds, after each of its pushes, the candidates of its own strides
\* decoded in the order 32, 16, 8, and the call returns what it would
\* return if it ran alone.
C10_NoInterference ==
  \A c \in Slots :
    /\ pc[c] = "stride" => faceProposals[c] = ProposalsUpTo(c, strideIx[c])
    /\ pc[c] = "done" => ret[c] = DetectAlone(c)

\* Two calls with different engine outputs have both decoded all their
\* strides, neither has returned yet, and both hold candidates.
C10_Witness ==
  /\ pc[1] = "stride" /\ strideIx[1] = Len(StrideTable)
  /\ pc[2] = "stride" /\ strideIx[2] = Len(StrideTable)
  /\ results[1] # results[2]
  /\ Len(faceProposals[1]) > 0
  /\ Len(faceProposals[2]) > 0

====
